---- MODULE Spec2Model ----
(***************************************************************************)
(* QuickEx privacy contract (contracts/quickex): the amount-commitment     *)
(* functions of commitment.rs and the contract entry points of lib.rs      *)
(* (privacy level, privacy history, escrow ids) over persistent storage.   *)
(*                                                                         *)
(* Representation choices                                                  *)
(*  - An i128 is held as its 16-byte two's-complement memory image, least  *)
(*    significant byte first (TLC integers are 32 bits wide, so i128::MAX  *)
(*    has no integer form).  `amount < 0` is the sign bit; to_be_bytes     *)
(*    writes the image most significant byte first.                        *)
(*  - Bytes buffers are sequences of 0..255.                               *)
(*  - SHA-256 is the ideal hash: a 32-byte value identified by its         *)
(*    preimage, so two digests are equal exactly when their preimages are. *)
(*    A commitment handed to verify is such a value, possibly with a byte  *)
(*    altered (xor # 0) or cut short (len < 32).                           *)
(*  - A contract invocation is atomic: a panic leaves storage untouched    *)
(*    and is reported in ret.panic.                                        *)
(***************************************************************************)
EXTENDS Integers, Sequences, FiniteSets, TLC

\* ------------------------------------------------------------------ bounds
\* Storage-changing invocations (enable_privacy, create_escrow) per run.
MaxStoreOps == 3
\* Longest salt enumerated byte by byte (the boundary salts come on top).
MaxShortSalt == 1

\* ------------------------------------------------------- program constants
MAX_SALT_LENGTH == 256
I128_BYTES == 16
SHA256_LEN == 32

\* ------------------------------------------------------------ input sets
\* Addresses known to the run.
Accounts == {1, 2}
\* Privacy levels passed by callers: 0, and one outside the documented 0-3.
Levels == {0, 4}
\* Byte values used in enumerated salts.
SaltBytes == {1, 2}
\* u64 amounts passed to create_escrow.
EscrowAmounts == {0, 1000}

VARIABLES
    privacy_level,    \* storage ("privacy_level", account) -> u32
    privacy_history,  \* storage ("privacy_history", account) -> Vec<u32>
    escrow_counter,   \* storage "escrow_counter" -> u64, absent until first set
    escrow,           \* storage ("escrow", id) -> {from, to}
    ret,              \* the last invocation: entry point, arguments, outcome
    held,             \* the last commitment a caller obtained, with its inputs
    enabled,          \* per account, the levels passed to enable_privacy, in call order
    issued            \* the ids create_escrow has returned, in call order

vars == <<privacy_level, privacy_history, escrow_counter, escrow, ret, held, enabled, issued>>
storage == <<privacy_level, privacy_history, escrow_counter, escrow>>

\* ------------------------------------------------------------ Option<T>
None == [some |-> FALSE, val |-> 0]
Some(x) == [some |-> TRUE, val |-> x]
unwrap_or(opt, default) == IF opt.some THEN opt.val ELSE default

\* ------------------------------------------------- persistent storage
\* storage().persistent().get(&(namespace, key))
Get(namespace, key) == IF key \in DOMAIN namespace THEN Some(namespace[key]) ELSE None

PutShared(namespace, key, value) ==
    [k \in DOMAIN namespace \cup {key} |-> value]

PutIfAbsent(namespace, key, value) ==
    IF key \in DOMAIN namespace THEN namespace
    ELSE [k \in DOMAIN namespace \cup {key} |-> IF k = key THEN value ELSE namespace[k]]

\* storage().persistent().set(&(namespace, key), &value): last write wins
Put(namespace, key, value) ==
    [k \in DOMAIN namespace \cup {key} |-> IF k = key THEN value ELSE namespace[k]]

push_back(v, x) == Append(v, x)

\* Vec::push_front
push_front(v, x) == <<x>> \o v

\* ------------------------------------------------------------------ i128
RECURSIVE Shr8(_, _)
\* n >> (8*k), arithmetic
Shr8(n, k) == IF k = 0 THEN n ELSE Shr8(n \div 256, k - 1)

\* The i128 with the (small) integer value n.
I128(n) == [i \in 1..I128_BYTES |-> Shr8(n, i - 1) % 256]
I128_MAX == [i \in 1..I128_BYTES |-> IF i = I128_BYTES THEN 127 ELSE 255]
I128_MIN == [i \in 1..I128_BYTES |-> IF i = I128_BYTES THEN 128 ELSE 0]

\* amount < 0
is_negative(amount) == amount[I128_BYTES] >= 128

to_le_bytes(amount) == [i \in 1..I128_BYTES |-> amount[i]]

\* i128::to_be_bytes
to_be_bytes(amount) == [i \in 1..I128_BYTES |-> amount[I128_BYTES + 1 - i]]

\* ----------------------------------------------------------------- Bytes
\* Address::to_xdr: the ScVal XDR of a contract address, 40 bytes: the ScVal
\* tag SCV_ADDRESS (18), the address kind SC_ADDRESS_TYPE_CONTRACT (1), then
\* the 32-byte contract id (here 31 zero bytes and the account number).
to_xdr(address) ==
    <<0, 0, 0, 18, 0, 0, 0, 1>> \o [i \in 1..32 |-> IF i = 32 THEN address ELSE 0]

\* Helper: extend a Bytes object with a single byte: copy the existing bytes
\* (`for i in 0..bytes.len() { result.push(bytes.get(i)) }`), then push byte.
extend_bytes(bytes, byte) == Append([i \in 1..Len(bytes) |-> bytes[i]], byte)

RECURSIVE extend_each(_, _, _, _)
\* for i in lo..=hi { result = extend_bytes(env, &result, src.get(i).unwrap()) }
\* The iterations run in index order, the range split in two so that the
\* evaluation stays shallow; each iteration lengthens the result by one byte.
extend_each(result, src, lo, hi) ==
    IF lo > hi THEN result
    ELSE IF lo = hi THEN extend_bytes(result, src[lo])
    ELSE LET mid == (lo + hi) \div 2
             first == extend_each(result, src, lo, mid)
         IN  IF Len(first) = Len(result) + (mid - lo + 1)
             THEN extend_each(first, src, mid + 1, hi)
             ELSE first

\* Helper: concatenate two Bytes objects: all bytes from a, then all from b.
concat_bytes(a, b) == extend_each(extend_each(<<>>, a, 1, Len(a)), b, 1, Len(b))

\* env.crypto().sha256(&data): the 32-byte value whose preimage is data
sha256(data) == [len |-> SHA256_LEN, preimage |-> data, xor |-> 0]

\* ------------------------------------------------------- commitment.rs
\* panic!(message): the call aborts and returns nothing
Panic(message) == [panic |-> message, value |-> <<>>]
Return(value) == [panic |-> "", value |-> value]

salt_too_long_off_by_one(salt) == Len(salt) >= MAX_SALT_LENGTH

\* salt.len() > MAX_SALT_LENGTH
salt_too_long(salt) == Len(salt) > MAX_SALT_LENGTH

serialize_without_owner(owner, amount, salt) ==
    concat_bytes(concat_bytes(<<>>, to_be_bytes(amount)), salt)

\* The buffer hashed: owner address bytes + amount (big-endian) + salt.
serialize(owner, amount, salt) ==
    LET data0 == <<>>
        owner_bytes == to_xdr(owner)
        data1 == concat_bytes(data0, owner_bytes)
        amount_bytes == to_be_bytes(amount)
        data2 == concat_bytes(data1, amount_bytes)
    IN concat_bytes(data2, salt)

create_salt_checked_first(owner, amount, salt) ==
    IF salt_too_long(salt) THEN Panic("Salt length exceeds maximum allowed")
    ELSE IF is_negative(amount) THEN Panic("Amount must be non-negative")
    ELSE Return(sha256(serialize(owner, amount, salt)))

create_without_salt(owner, amount, salt) ==
    IF is_negative(amount) THEN Panic("Amount must be non-negative")
    ELSE IF salt_too_long(salt) THEN Panic("Salt length exceeds maximum allowed")
    ELSE Return(sha256(concat_bytes(concat_bytes(<<>>, to_xdr(owner)), to_be_bytes(amount))))

create_amount_commitment(owner, amount, salt) ==
    IF is_negative(amount) THEN Panic("Amount must be non-negative")
    ELSE IF salt_too_long(salt) THEN Panic("Salt length exceeds maximum allowed")
    ELSE Return(sha256(serialize(owner, amount, salt)))

\* ------------------------------------------------- commitment inputs
Fill(n) == [i \in 1..n |-> 42]
ShortSalts == UNION {[1..n -> SaltBytes] : n \in 0..MaxShortSalt}
\* Salts: the short ones, the longest allowed and the shortest refused.
Salts == ShortSalts \cup {Fill(MAX_SALT_LENGTH), Fill(MAX_SALT_LENGTH + 1)}
Amounts == {I128(-1), I128(0), I128(1), I128_MAX, I128_MIN}
\* The inputs callers use while the contract's other entry points run.
CallAmounts == {I128(-1), I128(1)}
CallSalts == {<<1>>}

\* create_amount_commitment on every modelled input, tabulated once
\* (@@ turns the function expression into its table of values).
CommitmentTable ==
    [input \in Accounts \X Amounts \X Salts |->
        create_amount_commitment(input[1], input[2], input[3])] @@ <<>>

verify_comparing_lengths(commitment, owner, amount, salt) ==
    LET recomputed == CommitmentTable[<<owner, amount, salt>>]
    IN  IF recomputed.panic # "" THEN recomputed
        ELSE Return(commitment.len = recomputed.value.len
                    /\ commitment.preimage = recomputed.value.preimage)

verify_ignoring_owner(commitment, owner, amount, salt) ==
    LET recomputed == CommitmentTable[<<1, amount, salt>>]
    IN  IF recomputed.panic # "" THEN recomputed
        ELSE Return(commitment = recomputed.value)

verify_amount_commitment(commitment, owner, amount, salt) ==
    LET recomputed == CommitmentTable[<<owner, amount, salt>>]
    IN  IF recomputed.panic # "" THEN recomputed
        ELSE Return(commitment = recomputed.value)

\* ------------------------------------------------------------- callers
NoCommitment ==
    [some |-> FALSE, owner |-> 0, amount |-> I128(0), salt |-> <<>>,
     digest |-> sha256(<<>>), at |-> 0]
\* A digest with one byte altered, and a digest cut to 31 bytes.
Tamper(digest) == [digest EXCEPT !.xor = 1]
Truncate(digest) == [digest EXCEPT !.len = SHA256_LEN - 1]
\* What a caller may hand to verify as the commitment.
Submittable ==
    IF held.some THEN {held.digest, Tamper(held.digest), Truncate(held.digest)}
    ELSE {sha256(<<>>)}

Invocation(op, args, outcome) ==
    [op |-> op, args |-> args, panic |-> outcome.panic, value |-> outcome.value]

RECURSIVE SumLen(_, _)
SumLen(f, S) ==
    IF S = {} THEN 0
    ELSE LET a == CHOOSE x \in S : TRUE IN Len(f[a]) + SumLen(f, S \ {a})
\* enable_privacy and create_escrow invocations so far
StoreOps == SumLen(enabled, Accounts) + Len(issued)

Init ==
    /\ privacy_level = <<>>
    /\ privacy_history = <<>>
    /\ escrow_counter = None
    /\ escrow = <<>>
    /\ ret = Invocation("deploy", <<>>, Return(TRUE))
    /\ held = NoCommitment
    /\ enabled = [a \in Accounts |-> <<>>]
    /\ issued = <<>>

\* ------------------------------------------------------------- lib.rs
EnablePrivacy_level_only(account, level) ==
    /\ StoreOps < MaxStoreOps
    /\ privacy_level' = Put(privacy_level, account, level)
    /\ ret' = Invocation("enable_privacy", [account |-> account, level |-> level],
                         Return(TRUE))
    /\ enabled' = [enabled EXCEPT ![account] = Append(@, level)]
    /\ UNCHANGED <<privacy_history, escrow_counter, escrow, held, issued>>

EnablePrivacy(account, level) ==
    /\ StoreOps < MaxStoreOps
    /\ LET history == unwrap_or(Get(privacy_history, account), <<>>)
       IN  /\ privacy_level' = Put(privacy_level, account, level)
           /\ privacy_history' = Put(privacy_history, account, push_front(history, level))
    /\ ret' = Invocation("enable_privacy", [account |-> account, level |-> level],
                         Return(TRUE))
    /\ enabled' = [enabled EXCEPT ![account] = Append(@, level)]
    /\ UNCHANGED <<escrow_counter, escrow, held, issued>>

PrivacyStatus(account) ==
    /\ ret' = Invocation("privacy_status", [account |-> account],
                         Return(Get(privacy_level, account)))
    /\ UNCHANGED <<storage, held, enabled, issued>>

PrivacyHistory(account) ==
    /\ ret' = Invocation("privacy_history", [account |-> account],
                         Return(unwrap_or(Get(privacy_history, account), <<>>)))
    /\ UNCHANGED <<storage, held, enabled, issued>>

CreateEscrow_counter_not_saved(from, to, amount) ==
    /\ StoreOps < MaxStoreOps
    /\ LET count == unwrap_or(escrow_counter, 0) + 1
           escrow_id == count
       IN  /\ escrow_counter' = escrow_counter
           /\ escrow' = Put(escrow, escrow_id, [from |-> from, to |-> to])
           /\ ret' = Invocation("create_escrow",
                                [from |-> from, to |-> to, amount |-> amount],
                                Return(escrow_id))
           /\ issued' = Append(issued, escrow_id)
    /\ UNCHANGED <<privacy_level, privacy_history, held, enabled>>

CreateEscrow_id_before_increment(from, to, amount) ==
    /\ StoreOps < MaxStoreOps
    /\ LET count == unwrap_or(escrow_counter, 0)
           escrow_id == count
       IN  /\ escrow_counter' = Some(count + 1)
           /\ escrow' = Put(escrow, escrow_id, [from |-> from, to |-> to])
           /\ ret' = Invocation("create_escrow",
                                [from |-> from, to |-> to, amount |-> amount],
                                Return(escrow_id))
           /\ issued' = Append(issued, escrow_id)
    /\ UNCHANGED <<privacy_level, privacy_history, held, enabled>>

CreateEscrow(from, to, amount) ==
    /\ StoreOps < MaxStoreOps
    /\ LET count == unwrap_or(escrow_counter, 0) + 1
           escrow_id == count
       IN  /\ escrow_counter' = Some(count)
           /\ escrow' = Put(escrow, escrow_id, [from |-> from, to |-> to])
           /\ ret' = Invocation("create_escrow",
                                [from |-> from, to |-> to, amount |-> amount],
                                Return(escrow_id))
           /\ issued' = Append(issued, escrow_id)
    /\ UNCHANGED <<privacy_level, privacy_history, held, enabled>>

HealthCheck ==
    /\ ret' = Invocation("health_check", <<>>, Return(TRUE))
    /\ UNCHANGED <<storage, held, enabled, issued>>

\* What the caller holds after a create: the new commitment if it chose to
\* keep it (with the number of storage changes so far), else what it held.
Keep(keep, owner, amount, salt, outcome) ==
    IF keep /\ outcome.panic = ""
    THEN [some |-> TRUE, owner |-> owner, amount |-> amount, salt |-> salt,
          digest |-> outcome.value, at |-> StoreOps]
    ELSE held

CreateAmountCommitment_salted_by_counter(owner, amount, salt, keep) ==
    LET outcome == create_amount_commitment(
                       owner, amount, <<unwrap_or(escrow_counter, 0)>> \o salt)
    IN  /\ ret' = Invocation("create_amount_commitment",
                             [owner |-> owner, amount |-> amount, salt |-> salt], outcome)
        /\ held' = Keep(keep, owner, amount, salt, outcome)
        /\ UNCHANGED <<storage, enabled, issued>>

CreateAmountCommitment(owner, amount, salt, keep) ==
    LET outcome == CommitmentTable[<<owner, amount, salt>>]
    IN  /\ ret' = Invocation("create_amount_commitment",
                             [owner |-> owner, amount |-> amount, salt |-> salt], outcome)
        /\ held' = Keep(keep, owner, amount, salt, outcome)
        /\ UNCHANGED <<storage, enabled, issued>>

VerifyAmountCommitment_recording(commitment, owner, amount, salt) ==
    /\ ret' = Invocation("verify_amount_commitment",
                         [commitment |-> commitment, owner |-> owner,
                          amount |-> amount, salt |-> salt],
                         verify_amount_commitment(commitment, owner, amount, salt))
    /\ privacy_level' = Put(privacy_level, owner, 0)
    /\ UNCHANGED <<privacy_history, escrow_counter, escrow, held, enabled, issued>>

VerifyAmountCommitment(commitment, owner, amount, salt) ==
    /\ ret' = Invocation("verify_amount_commitment",
                         [commitment |-> commitment, owner |-> owner,
                          amount |-> amount, salt |-> salt],
                         verify_amount_commitment(commitment, owner, amount, salt))
    /\ UNCHANGED <<storage, held, enabled, issued>>

\* ------------------------------------------------------ specifications
\* The contract: every entry point, invoked in any order.
Next ==
    \/ \E account \in Accounts, level \in Levels : EnablePrivacy(account, level)
    \/ \E account \in Accounts : PrivacyStatus(account)
    \/ \E account \in Accounts : PrivacyHistory(account)
    \/ \E from \in Accounts, to \in Accounts, amount \in EscrowAmounts :
           CreateEscrow(from, to, amount)
    \/ HealthCheck
    \/ \E owner \in Accounts, amount \in CallAmounts, salt \in CallSalts,
          keep \in BOOLEAN :
           CreateAmountCommitment(owner, amount, salt, keep)
    \/ \E commitment \in Submittable, owner \in Accounts,
          amount \in CallAmounts, salt \in CallSalts :
           VerifyAmountCommitment(commitment, owner, amount, salt)

Spec == Init /\ [][Next]_vars

\* The commitment functions alone, on the boundary inputs.
CommitNext ==
    \/ \E owner \in Accounts, amount \in Amounts, salt \in Salts,
          keep \in BOOLEAN :
           CreateAmountCommitment(owner, amount, salt, keep)
    \/ \E commitment \in Submittable, owner \in Accounts,
          amount \in Amounts, salt \in Salts :
           VerifyAmountCommitment(commitment, owner, amount, salt)

CommitSpec == Init /\ [][CommitNext]_vars

\* ===================================================================
\* Claims
\* ===================================================================
IsCreate == ret.op = "create_amount_commitment"
IsVerify == ret.op = "verify_amount_commitment"
InvalidAmount == "Amount must be non-negative"
SaltTooLong == "Salt length exceeds maximum allowed"
\* amount >= 0 (two's complement: the top bit is clear)
NonNegative(amount) == amount[I128_BYTES] < 128
SaltFits(salt) == Len(salt) <= MAX_SALT_LENGTH
ValidInputs(args) == NonNegative(args.amount) /\ SaltFits(args.salt)
\* The call's inputs are the ones the held commitment was made from.
SameAsHeld(args) ==
    args.owner = held.owner /\ args.amount = held.amount /\ args.salt = held.salt
\* The call's inputs differ from the held commitment's in exactly one component.
OneChanged(args) ==
    Cardinality({c \in {"owner", "amount", "salt"} :
        \/ c = "owner" /\ args.owner # held.owner
        \/ c = "amount" /\ args.amount # held.amount
        \/ c = "salt" /\ args.salt # held.salt}) = 1
Reverse(s) == [i \in 1..Len(s) |-> s[Len(s) + 1 - i]]

\* C1: verify_amount_commitment never raises: whatever the digest, identity,
\* amount and salt, the call completes with a boolean, and the boolean is
\* false when the amount is negative or the salt is longer than 256 bytes.
C1_VerifyNeverRaises ==
    IsVerify =>
        /\ ret.panic = ""
        /\ ret.value \in BOOLEAN
        /\ (~ValidInputs(ret.args) => ret.value = FALSE)

\* C2: create_amount_commitment fails with InvalidAmount for every negative
\* amount whatever the salt length, and with SaltTooLong for every
\* non-negative amount with a salt longer than 256 bytes; a failed call
\* returns no digest.
C2_CreateFailures ==
    IsCreate =>
        /\ (~NonNegative(ret.args.amount) =>
                ret.panic = InvalidAmount /\ ret.value = <<>>)
        /\ (NonNegative(ret.args.amount) /\ ~SaltFits(ret.args.salt) =>
                ret.panic = SaltTooLong /\ ret.value = <<>>)
C2_Witness ==
    /\ IsCreate
    /\ ~NonNegative(ret.args.amount)
    /\ ~SaltFits(ret.args.salt)
    /\ ret.panic = InvalidAmount

\* C3: create_amount_commitment succeeds exactly when amount >= 0 and
\* len(salt) <= 256: it succeeds at amount 0, at i128::MAX, with the empty
\* salt and with a salt of 256 bytes, and fails at amount -1 and at a salt of
\* 257 bytes.
C3_CreateSucceedsIffValid ==
    IsCreate =>
        /\ (ret.panic = "") <=> ValidInputs(ret.args)
        /\ (ret.args.amount \in {I128(0), I128_MAX}
              /\ Len(ret.args.salt) \in {0, MAX_SALT_LENGTH} => ret.panic = "")
        /\ (ret.args.amount = I128(-1) => ret.panic # "")
        /\ (Len(ret.args.salt) = MAX_SALT_LENGTH + 1 => ret.panic # "")
C3_Witness ==
    /\ IsCreate
    /\ ret.args.amount = I128_MAX
    /\ Len(ret.args.salt) = MAX_SALT_LENGTH
    /\ ret.panic = ""
    /\ ret.value.len = SHA256_LEN

\* C4: soundness round trip: verifying the digest create returned for a valid
\* (identity, amount, salt), against the same identity, amount and salt,
\* returns true.
C4_RoundTrip ==
    IsVerify /\ held.some /\ SameAsHeld(ret.args) /\ ret.args.commitment = held.digest
        => ret.panic = "" /\ ret.value = TRUE
C4_Witness ==
    /\ IsVerify /\ held.some /\ SameAsHeld(ret.args)
    /\ ret.args.commitment = held.digest
    /\ ret.args.owner = 2
    /\ ret.args.amount = I128_MAX
    /\ Len(ret.args.salt) = MAX_SALT_LENGTH
    /\ ret.value = TRUE

\* C5: determinism: a create_amount_commitment call with the inputs of a
\* commitment obtained earlier returns the same digest, whatever
\* enable_privacy, create_escrow or commitment calls ran in between: the
\* digest does not depend on the persistent store.
C5_Determinism ==
    IsCreate /\ ret.panic = "" /\ held.some /\ SameAsHeld(ret.args)
        => ret.value = held.digest
C5_Witness ==
    /\ IsCreate /\ ret.panic = "" /\ held.some /\ SameAsHeld(ret.args)
    /\ held.at = 0
    /\ escrow_counter = Some(2)
    /\ privacy_level # <<>>

\* C6: sensitivity: a valid triple that differs from a committed one in
\* exactly one of identity, amount or salt gets a different digest, so
\* verifying the held digest against the changed triple returns false.
C6_Sensitivity ==
    held.some /\ ret.panic = "" /\ (IsCreate \/ IsVerify) /\ OneChanged(ret.args) =>
        /\ (IsCreate => ret.value # held.digest)
        /\ (IsVerify /\ ret.args.commitment = held.digest => ret.value = FALSE)
C6_Witness ==
    /\ IsVerify /\ held.some /\ ret.panic = ""
    /\ ret.args.commitment = held.digest
    /\ ret.args.owner = held.owner /\ ret.args.amount = held.amount
    /\ ret.args.salt = <<2>> /\ held.salt = <<1>>
    /\ ret.value = FALSE

\* C7: escrow monotonicity: from a fresh store the n-th create_escrow call
\* returns n, whatever other operations are interleaved: ids are strictly
\* increasing, none reused, none skipped.
C7_EscrowMonotonic ==
    /\ issued = [i \in 1..Len(issued) |-> i]
    /\ (ret.op = "create_escrow" => ret.panic = "" /\ ret.value = Len(issued))
C7_Witness ==
    /\ ret.op = "create_escrow"
    /\ ret.value = 2
    /\ \E a \in Accounts : enabled[a] # <<>>

\* C8: history ordering: privacy_history(A) is the list of the levels passed
\* to enable_privacy for A, most recent first, one entry per call with
\* duplicates kept; an account never enabled has the empty history.
C8_HistoryOrdering ==
    ret.op = "privacy_history" =>
        /\ ret.panic = ""
        /\ ret.value = Reverse(enabled[ret.args.account])
C8_Witness ==
    /\ ret.op = "privacy_history"
    /\ ret.value = <<4, 0, 0>>

\* C9: enable_privacy returns true for every level, with no range check, and
\* privacy_status(A) then returns the level of the latest enable_privacy for
\* A; for an account never enabled it returns None.
C9_StatusIsLastLevel ==
    /\ (ret.op = "enable_privacy" => ret.panic = "" /\ ret.value = TRUE)
    /\ (ret.op = "privacy_status" =>
            /\ ret.panic = ""
            /\ ret.value =
                 LET calls == enabled[ret.args.account]
                 IN  IF calls = <<>> THEN None ELSE Some(calls[Len(calls)]))
C9_Witness ==
    /\ ret.op = "privacy_status"
    /\ ret.value = Some(4)
    /\ enabled[ret.args.account] = <<0, 4>>

\* C10: create_amount_commitment and verify_amount_commitment have no side
\* effects: whether the call returns or panics, the privacy levels, the
\* privacy histories, the escrow counter and every escrow record are after
\* the call what they were before it.
C10_CommitmentCallsKeepStorage ==
    [][ret'.op \in {"create_amount_commitment", "verify_amount_commitment"}
          => storage' = storage]_vars
C10_Witness ==
    /\ IsVerify
    /\ ret.panic # ""
    /\ escrow_counter = Some(1)
    /\ privacy_level # <<>>

\* C11: storage isolation: enable_privacy(A, level) changes only the level and
\* the history of A; the level and history of every other account, the
\* escrow counter and the escrow records stay as they were.
C11_EnablePrivacyIsolated ==
    [][ret'.op = "enable_privacy" =>
          /\ \A b \in Accounts \ {ret'.args.account} :
                /\ Get(privacy_level', b) = Get(privacy_level, b)
                /\ Get(privacy_history', b) = Get(privacy_history, b)
          /\ escrow_counter' = escrow_counter
          /\ escrow' = escrow]_vars
C11_Witness ==
    /\ ret.op = "enable_privacy"
    /\ ret.args.account = 1
    /\ privacy_history = <<<<4>>, <<0>>>>
    /\ privacy_level = <<4, 0>>
    /\ escrow_counter = Some(1)

\* The 16 big-endian two's-complement bytes of the non-negative amounts of
\* the model, written out: 0, 1 and i128::MAX = 2^127 - 1.
BigEndian16(amount) ==
    CASE amount = I128(0) -> [i \in 1..16 |-> 0]
      [] amount = I128(1) -> [i \in 1..16 |-> IF i = 16 THEN 1 ELSE 0]
      [] amount = I128_MAX -> [i \in 1..16 |-> IF i = 1 THEN 127 ELSE 255]

\* C12: canonical encoding layout: the buffer create_amount_commitment hashes
\* is the identity serialization, then the amount as 16 big-endian
\* two's-complement bytes, then the raw salt, with no length prefix or
\* separator, so its length is len(identity bytes) + 16 + len(salt); and
\* concat_bytes(a, b) is the bytes of a in order, then the bytes of b in order.
C12_EncodingLayout ==
    IsCreate /\ ret.panic = "" =>
        LET identity == to_xdr(ret.args.owner)
            amount == BigEndian16(ret.args.amount)
            salt == ret.args.salt
        IN  /\ ret.value.preimage = identity \o amount \o salt
            /\ Len(ret.value.preimage) = Len(identity) + 16 + Len(salt)
            /\ concat_bytes(amount, identity) = amount \o identity
            /\ concat_bytes(<<>>, amount) = amount
            /\ concat_bytes(amount, <<>>) = amount
C12_Witness ==
    /\ IsCreate /\ ret.panic = ""
    /\ ret.args.amount = I128(1)
    /\ ret.args.salt = <<2>>
    /\ ret.value.preimage[56] = 1
    /\ ret.value.preimage[57] = 2
    /\ Len(ret.value.preimage) = 57

\* No identity serialization of the model is a proper prefix of another.
IdentityPrefixFree ==
    \A a, b \in Accounts :
        a # b => LET x == to_xdr(a)
                     y == to_xdr(b)
                 IN  ~(Len(x) <= Len(y) /\ SubSeq(y, 1, Len(x)) = x)

\* C13: encoding injectivity: with an identity serialization that is
\* fixed-length or self-delimiting, two distinct valid triples, differing in
\* any number of components, are never encoded to the same buffer.
C13_EncodingInjective ==
    IdentityPrefixFree =>
        (IsCreate /\ ret.panic = "" /\ held.some /\ ~SameAsHeld(ret.args)
            => ret.value.preimage # held.digest.preimage)
C13_Witness ==
    /\ IdentityPrefixFree
    /\ IsCreate /\ ret.panic = "" /\ held.some
    /\ ret.args.owner # held.owner
    /\ ret.args.amount # held.amount
    /\ ret.args.salt # held.salt
    /\ Len(ret.args.salt) = MAX_SALT_LENGTH
    /\ ret.value.preimage # held.digest.preimage

\* C14: for a valid identity, amount and salt, verify_amount_commitment
\* returns true exactly when the digest handed in is byte for byte the one
\* create_amount_commitment returns for them; a tampered digest, a digest
\* that is not 32 bytes long and the digest of other inputs give false.
C14_VerifyIffDigestOfInputs ==
    IsVerify /\ ValidInputs(ret.args) =>
        /\ ret.panic = ""
        /\ ret.value = TRUE <=>
              /\ held.some
              /\ SameAsHeld(ret.args)
              /\ ret.args.commitment = held.digest
        /\ (ret.args.commitment.len # SHA256_LEN => ret.value = FALSE)
        /\ (ret.args.commitment.xor # 0 => ret.value = FALSE)
C14_Witness ==
    /\ IsVerify /\ ValidInputs(ret.args) /\ held.some /\ SameAsHeld(ret.args)
    /\ ret.args.commitment = Tamper(held.digest)
    /\ ret.value = FALSE

\* C15: the escrow registry is write-once: the recorded ids are always
\* 1..escrow_counter; create_escrow(from, to, amount) adds the record
\* (from, to) under the new id, nothing else, and raises the counter by one;
\* no operation changes or removes a record or lowers the counter.
C15_EscrowWriteOnce ==
    /\ [](DOMAIN escrow = 1..unwrap_or(escrow_counter, 0))
    /\ [][/\ \A id \in DOMAIN escrow :
                id \in DOMAIN escrow' /\ escrow'[id] = escrow[id]
          /\ unwrap_or(escrow_counter', 0) >= unwrap_or(escrow_counter, 0)
          /\ IF issued' # issued
             THEN LET id == unwrap_or(escrow_counter, 0) + 1
                  IN  /\ ret'.op = "create_escrow"
                      /\ escrow_counter' = Some(id)
                      /\ DOMAIN escrow' = DOMAIN escrow \cup {id}
                      /\ escrow'[id] = [from |-> ret'.args.from, to |-> ret'.args.to]
             ELSE escrow' = escrow /\ escrow_counter' = escrow_counter]_vars
C15_Witness ==
    /\ ret.op = "create_escrow"
    /\ escrow_counter = Some(2)
    /\ escrow = <<[from |-> 1, to |-> 2], [from |-> 2, to |-> 2]>>
    /\ privacy_level # <<>>

\* C16: level/history consistency: for every account, privacy_status is None
\* exactly when privacy_history is empty, and otherwise it is the first, most
\* recent, element of privacy_history; no state shows one of the two writes
\* of enable_privacy without the other.
C16_LevelMatchesHistory ==
    \A a \in Accounts :
        LET status == Get(privacy_level, a)
            history == unwrap_or(Get(privacy_history, a), <<>>)
        IN  /\ (status = None) <=> (history = <<>>)
            /\ (history # <<>> => status = Some(history[1]))
C16_Witness ==
    /\ Get(privacy_level, 1) = Some(0)
    /\ unwrap_or(Get(privacy_history, 1), <<>>) = <<0, 4>>
    /\ Get(privacy_level, 2) = None
    /\ unwrap_or(Get(privacy_history, 2), <<>>) = <<>>

====
